---- MODULE Spec2Model ----
(***************************************************************************)
(* Model of reportgen::generateDocx (docx_report.cpp): the expansion of a  *)
(* one-block .docx template into one page per entry.                       *)
(*                                                                         *)
(* The state is the file system the call works on (the template archive,   *)
(* the working directory <temp>/docx_tmp, the output archive), the         *)
(* in-memory XML document (a heap of body-level nodes, the body's child    *)
(* list, the captured template block, the page being built) and the        *)
(* call's position.  One action per statement group of generateDocx.       *)
(***************************************************************************)
EXTENDS Integers, Sequences, FiniteSets, TLC

\* Longest entry list handed to generateDocx.
MaxEntries == 2

-----------------------------------------------------------------------------
(* XML values.  An element is [name, attrs, text, kids]; attrs is a set of  *)
(* <<attribute, value>> pairs with distinct attributes; text is what        *)
(* XMLElement::GetText() returns (NoText for nullptr); kids are the child   *)
(* elements in document order.                                              *)

NoText == "<nullptr>"

Elem(name, attrs, text, kids) ==
    [name |-> name, attrs |-> attrs, text |-> text, kids |-> kids]

\* XMLElement::SetAttribute(name, value): sets or replaces one attribute.
SetAttribute(e, a, v) ==
    [e EXCEPT !.attrs = {p \in e.attrs : p[1] # a} \cup {<<a, v>>}]

\* XMLElement::SetText(value)
SetText(e, v) == [e EXCEPT !.text = v]

HEADER == "{{HEADER}}"
DESCRIPTION == "{{DESCRIPTION}}"

T(text)   == Elem("w:t", {}, text, <<>>)
Blip(r)   == Elem("a:blip", {<<"r:embed", r>>}, NoText, <<>>)
Run(k)    == Elem("w:r", {}, NoText, k)
Para(k)   == Elem("w:p", {}, NoText, k)
Drawing(k) == Elem("w:drawing", {}, NoText, k)
SectPr    == Elem("w:sectPr", {}, NoText, <<>>)

\* The first body child of the templates explored: body-level blocks
\* (paragraphs) holding the tokens and the picture reference at different
\* depths, repeated, partial, or not at all.
BlockNested ==
    Para(<< Run(<<T(HEADER)>>), Run(<<T(DESCRIPTION)>>),
            Run(<<Drawing(<<Blip("rId5")>>)>>) >>)
BlockFlat ==
    Para(<< T(HEADER), T(DESCRIPTION), Blip("rId5") >>)
BlockTwoBlips ==
    Para(<< Run(<<T(HEADER), T(HEADER)>>), Blip("rId5"), T("Title"), Blip("rId6") >>)
BlockNoBlip ==
    Para(<< Run(<<T("x{{HEADER}}"), T(NoText)>>), T(DESCRIPTION) >>)
BlockDeep ==
    Para(<< Blip("rId5"), Run(<<Run(<<T(DESCRIPTION), T(HEADER)>>), Blip("rId6")>>) >>)

TemplateBlocks ==
    {BlockNested, BlockFlat, BlockTwoBlips, BlockNoBlip, BlockDeep}

-----------------------------------------------------------------------------
(* Files.                                                                   *)

\* word/document.xml: whether it parses, whether it has a w:document root,
\* whether the root has a w:body, and the body's children.
DocFile(parses, hasRoot, hasBody, kids) ==
    [parses |-> parses, hasRoot |-> hasRoot, hasBody |-> hasBody, kids |-> kids]

BadDoc    == DocFile(FALSE, FALSE, FALSE, <<>>)
NoRootDoc == DocFile(TRUE, FALSE, FALSE, <<>>)
NoBodyDoc == DocFile(TRUE, TRUE, FALSE, <<>>)

Bodies ==
    {<<>>} \cup {<<b>> : b \in TemplateBlocks}
           \cup {<<b, SectPr>> : b \in TemplateBlocks}

Documents ==
    {BadDoc, NoRootDoc, NoBodyDoc} \cup {DocFile(TRUE, TRUE, TRUE, k) : k \in Bodies}

\* The relationship type written for every image (docx_report.cpp:113-114).
ImageType ==
    "http://schemas.openxmlformats.org/officeDocument/2006/relationships/image"
StylesType ==
    "http://schemas.openxmlformats.org/officeDocument/2006/relationships/styles"

Rel(id, type, target) == [Id |-> id, Type |-> type, Target |-> target]

\* word/_rels/document.xml.rels: whether it loads, whether it has a
\* Relationships root, and the root's Relationship children.
RelsFile(loads, hasRoot, recs) ==
    [loads |-> loads, hasRoot |-> hasRoot, recs |-> recs]

BaseRels ==
    << Rel("rId1", StylesType, "styles.xml"),
       Rel("rId5", ImageType, "media/image1.png") >>

\* A template that already uses relationship identifier rId10.
BusyRels ==
    BaseRels \o << Rel("rId10", StylesType, "theme/theme1.xml") >>

RelsFiles ==
    { RelsFile(FALSE, FALSE, <<>>), RelsFile(TRUE, FALSE, <<>>),
      RelsFile(TRUE, TRUE, BaseRels), RelsFile(TRUE, TRUE, BusyRels) }

\* A directory tree or an archive of one: the document, the relationship
\* file and word/media as a set of <<file name, content>> pairs.
Tree(doc, rels, media) ==
    [exists |-> TRUE, doc |-> doc, rels |-> rels, media |-> media]

\* No directory, or no file, at a path.
NoDir ==
    [exists |-> FALSE, doc |-> BadDoc, rels |-> RelsFile(FALSE, FALSE, <<>>),
     media |-> {}]

TemplateMedia == { <<"image1.png", "template picture">> }

Templates ==
    { Tree(d, r, TemplateMedia) : d \in Documents, r \in RelsFiles }

\* What a working directory left behind by an earlier call may hold.
StaleDir ==
    Tree(DocFile(TRUE, TRUE, TRUE, <<Para(<<T("old")>>)>>),
         RelsFile(TRUE, TRUE, << Rel("rId10", ImageType, "media/image10.png") >>),
         { <<"image10.png", "old picture">> })

\* What a failed extraction may leave of the working directory.
PartialDir ==
    Tree(BadDoc, RelsFile(FALSE, FALSE, <<>>), {})

-----------------------------------------------------------------------------
(* Entries (docx_report.h:8-13).  A path is [dir, stem, ext].               *)

Path(dir, stem, ext) == [dir |-> dir, stem |-> stem, ext |-> ext]

\* fs::path::extension(): the part of the file name from its last dot.
Extension(p) == p.ext

Entry(h, d, p) == [header |-> h, description |-> d, imagePath |-> p]

\* The image files that exist on disk.
ExistingImages ==
    { Path("x", "a", ".png"), Path("y", "a", ".png"), Path("x", "b", ".jpg") }

EntryValues ==
    { Entry("A", "d1", Path("x", "a", ".png")),
      Entry("B", "d2", Path("y", "a", ".png")),
      Entry(DESCRIPTION, "d3", Path("x", "b", ".jpg")),
      Entry("C", HEADER, Path("x", "gone", ".png")) }

SeqsUpTo(S, n) == UNION { [1..k -> S] : k \in 0..n }

EntryLists == SeqsUpTo(EntryValues, MaxEntries)

-----------------------------------------------------------------------------
(* The pure parts of generateDocx.                                          *)

\* Replace {{HEADER}} / {{DESCRIPTION}} tokens (docx_report.cpp:40-54): every
\* child element named w:t whose text equals key gets val; then the child is
\* visited in turn.  The node itself is not examined.
RECURSIVE replaceTokens(_, _, _)
replaceTokens(node, key, val) ==
    IF node.kids = <<>> THEN node
    ELSE [node EXCEPT !.kids =
            [j \in 1..Len(node.kids) |->
                LET e == node.kids[j]
                    hit == e.name = "w:t" /\ e.text # NoText /\ key = e.text
                IN  replaceTokens(IF hit THEN SetText(e, val) ELSE e, key, val)]]

\* XMLNode::DeepClone: a structurally equal copy.
DeepClone(node) == node

\* std::string(e2->Name()).find("a:blip") != npos, over the element names of
\* the model (none but a:blip contains that substring).
IsBlipName(name) == name = "a:blip"

\* docx_report.cpp:111
RelIdText(n) == "rId" \o ToString(n)

\* docx_report.cpp:101
ImgName(n, path) == "image" \o ToString(n) \o Extension(path)

\* docx_report.cpp:115
TargetOf(imgName) == "media/" \o imgName

\* The bytes of an image file, named after where they come from.
Content(path) == path.dir \o "/" \o path.stem \o path.ext

\* docx_report.cpp:120-124: the loop over the page's child elements.
RewireBlips(node, rId) ==
    IF node.kids = <<>> THEN node
    ELSE [node EXCEPT !.kids =
            [j \in 1..Len(node.kids) |->
                IF IsBlipName(node.kids[j].name)
                THEN SetAttribute(node.kids[j], "r:embed", rId)
                ELSE node.kids[j]]]

\* docx_report.cpp:129-134: <w:p><w:r><w:br w:type="page"/></w:r></w:p>
PageBreak ==
    Para(<< Run(<< Elem("w:br", {<<"w:type", "page">>}, NoText, <<>>) >>) >>)

\* fs::copy_file(..., overwrite_existing) into a directory listing.
WriteFile(dir, name, content) ==
    {f \in dir : f[1] # name} \cup {<<name, content>>}

\* int relId = 10 (docx_report.cpp:90)
FirstRelId == 10

\* Mutant: the counter is not advanced.
SameRelId(n) == n

\* ++relId (docx_report.cpp:137)
NextRelId(n) == n + 1

\* Mutant: the page break is inserted before the page.
InsertBreakAndPage(b, p, br) == b \o << br, p >>

\* body->InsertEndChild(page); ...; body->InsertEndChild(br)
\* (docx_report.cpp:126 and 135).
InsertPageAndBreak(b, p, br) == b \o << p, br >>

\* Mutant: only the first body child is deleted.
DeleteFirstChild(b) == Tail(b)

\* while (body->FirstChild()) body->DeleteChild(...) (docx_report.cpp:86-88):
\* the body's child list afterwards.
DeleteChildren(b) == <<>>

\* A deleted node.
Freed == Elem("<freed>", {}, NoText, <<>>)

\* Mutant: the page is the template block itself, not a copy of it.
SharedAddr(h, src) == src

\* The address DeepClone(&doc) returns: a new node of the document.
CloneAddr(h, src) == Len(h) + 1

\* Store v at address a of heap h (a is an address of h or the next free one).
Put(h, a, v) == IF a = Len(h) + 1 THEN Append(h, v) ELSE [h EXCEPT ![a] = v]

\* XMLDocument::SaveFile: the body as it is serialized.
Serialize(h, b) == [j \in 1..Len(b) |-> h[b[j]]]

-----------------------------------------------------------------------------
VARIABLES
    templateDocx,   \* the template archive (input)
    entries,        \* the entry list (input)
    tmp,            \* the working directory <temp>/docx_tmp, or NoDir
    outputDocx,     \* the archive at the output path, or NoDir
    pc,             \* position in generateDocx
    result,         \* the value returned, once pc = "returned"
    doc,            \* the XMLDocument loaded from word/document.xml
    heap,           \* body-level nodes of the in-memory document, by address
    body,           \* addresses of the children of <w:body>, in order
    templateBlock,  \* address of the captured template block (0: none)
    page,           \* address of the page being built (0: none)
    relId,          \* the identifier counter
    done,           \* number of entries whose loop body has completed
    outWrites,      \* history: how many times the output path was written
    failed,         \* history: the components that have failed in this call
    copied,         \* history: the media file names written, in order
    inherited,      \* history: the working directory as the call found it
    other           \* a second call, suspended: its variables (or NoCall)

vars == << templateDocx, entries, tmp, outputDocx, pc, result, doc, heap, body,
           templateBlock, page, relId, done, outWrites, failed, copied,
           inherited, other >>

inputs == << templateDocx, entries >>
outside == << inherited, other >>

\* No second call.
NoCall == [pc |-> "none"]
memory == << doc, heap, body, templateBlock, page, relId, done >>

Init ==
    /\ templateDocx \in Templates
    /\ entries \in EntryLists
    /\ tmp \in {NoDir, StaleDir}
    /\ outputDocx = NoDir
    /\ pc = "start"
    /\ result = FALSE
    /\ doc = BadDoc
    /\ heap = <<>>
    /\ body = <<>>
    /\ templateBlock = 0
    /\ page = 0
    /\ relId = 0
    /\ done = 0
    /\ outWrites = 0
    /\ failed = {}
    /\ copied = <<>>
    /\ inherited = tmp
    /\ other = NoCall

\* A return statement.
Return(v) ==
    /\ pc' = "returned"
    /\ result' = v

\* An exception leaving generateDocx.
Throw ==
    /\ pc' = "threw"
    /\ UNCHANGED result

\* Abnormal termination of the process.
Crash ==
    /\ pc' = "crashed"
    /\ UNCHANGED result

\* A member function is called through a null pointer.  Behaviour is
\* undefined; the builds fault on the access, which ends the process or, where
\* access violations are raised as structured exceptions, unwinds out of the
\* call.
NullDeref == Crash \/ Throw

Goto(l) ==
    /\ pc' = l
    /\ UNCHANGED result

Fail(component) == failed' = failed \cup {component}

\* for (auto& e : entries), docx_report.cpp:91: where control goes once n
\* entries are done.
LoopPc(n) == IF n < Len(entries) THEN "clone" ELSE "save"

\* The entry being processed.
e == entries[done + 1]

\* Mutant: the template is extracted over what the directory held.
ExtractedOver(old, tpl) ==
    [tpl EXCEPT !.media = @ \cup {f \in old.media :
                                    f[1] \notin {g[1] : g \in tpl.media}},
                !.rels.recs = @ \o old.rels.recs]

\* fs::remove_all(tmp) followed by a successful unzip(templateDocx, tmp)
\* (docx_report.cpp:63-64): the directory holds the template's files only.
Extracted(old, tpl) == tpl

\* docx_report.cpp:62-68: remove the working directory, extract the template.
Extract ==
    /\ pc = "start"
    /\ \/ /\ tmp # NoDir                  \* fs::remove_all throws
          /\ Throw
          /\ Fail("extraction")
          /\ UNCHANGED tmp
       \/ /\ tmp' = Extracted(tmp, templateDocx)  \* unzip returns true
          /\ Goto("load")
          /\ UNCHANGED failed
       \/ /\ tmp' \in {NoDir, PartialDir} \* unzip caught an exception
          /\ Return(FALSE)
          /\ Fail("extraction")
    /\ UNCHANGED << inputs, outside, memory, outputDocx, outWrites, copied >>

\* docx_report.cpp:70-77: parse word/document.xml.
LoadDocument ==
    /\ pc = "load"
    /\ IF tmp.doc.parses
       THEN /\ doc' = tmp.doc
            /\ heap' = tmp.doc.kids
            /\ Goto("body")
            /\ UNCHANGED failed
       ELSE /\ Return(FALSE)
            /\ Fail("document parse")
            /\ UNCHANGED << doc, heap >>
    /\ UNCHANGED << inputs, outside, tmp, outputDocx, body, templateBlock, page, relId,
                    done, outWrites, copied >>

\* docx_report.cpp:79-81: find <w:body>.  Without a w:document root the
\* second FirstChildElement is called through a null pointer.
GetBody ==
    /\ pc = "body"
    /\ IF ~doc.hasRoot
       THEN /\ NullDeref
            /\ Fail("body lookup")
            /\ UNCHANGED body
       ELSE IF ~doc.hasBody
       THEN /\ Return(FALSE)
            /\ Fail("body lookup")
            /\ UNCHANGED body
       ELSE /\ body' = [j \in 1..Len(heap) |-> j]
            /\ Goto("capture")
            /\ UNCHANGED failed
    /\ UNCHANGED << inputs, outside, tmp, outputDocx, doc, heap, templateBlock, page,
                    relId, done, outWrites, copied >>

\* docx_report.cpp:83-90: clone the first body child, delete every body
\* child, start the counter.  With an empty body DeepClone is called through
\* a null pointer.
CaptureTemplate ==
    /\ pc = "capture"
    /\ IF body = <<>>
       THEN /\ NullDeref
            /\ Fail("template capture")
            /\ UNCHANGED << heap, body, templateBlock, relId >>
       ELSE /\ heap' = Append([a \in 1..Len(heap) |-> Freed],
                              DeepClone(heap[body[1]]))
            /\ templateBlock' = Len(heap) + 1
            /\ body' = DeleteChildren(body)
            /\ relId' = FirstRelId
            /\ Goto(LoopPc(0))
            /\ UNCHANGED failed
    /\ UNCHANGED << inputs, outside, tmp, outputDocx, doc, page, done, outWrites, copied >>

\* docx_report.cpp:93-96: clone the template block, substitute both tokens.
ClonePage ==
    /\ pc = "clone"
    /\ LET a  == CloneAddr(heap, templateBlock)
           c  == DeepClone(heap[templateBlock])
           h1 == Put(heap, a, c)
           h2 == [h1 EXCEPT ![a] = replaceTokens(h1[a], HEADER, e.header)]
           h3 == [h2 EXCEPT ![a] = replaceTokens(h2[a], DESCRIPTION, e.description)]
       IN  /\ page' = a
           /\ heap' = h3
    /\ Goto("copy")
    /\ UNCHANGED << inputs, outside, tmp, outputDocx, doc, body, templateBlock, relId,
                    done, outWrites, failed, copied >>

\* docx_report.cpp:98-103: create word/media, copy the entry's image into it.
\* create_directories and copy_file throw on failure.
CopyImage ==
    /\ pc = "copy"
    /\ \/ /\ e.imagePath \in ExistingImages
          /\ ImgName(relId, e.imagePath) \notin { f[1] : f \in tmp.media }
          /\ tmp' = [tmp EXCEPT !.exists = TRUE,
                                !.media =
                        WriteFile(@, ImgName(relId, e.imagePath), Content(e.imagePath))]
          /\ copied' = Append(copied, ImgName(relId, e.imagePath))
          /\ Goto("rels")
          /\ UNCHANGED failed
       \/ /\ Throw
          /\ Fail("image copy")
          /\ UNCHANGED << tmp, copied >>
    /\ UNCHANGED << inputs, outside, memory, outputDocx, outWrites >>

\* docx_report.cpp:105-117: load the relationship file, append one record,
\* save it.  Neither LoadFile's nor SaveFile's result is looked at.  Without
\* a Relationships root InsertEndChild is called through a null pointer.
UpdateRels ==
    /\ pc = "rels"
    /\ IF ~(tmp.rels.loads /\ tmp.rels.hasRoot)
       THEN /\ NullDeref
            /\ Fail("relationship update")
            /\ UNCHANGED tmp
       ELSE \/ /\ tmp' = [tmp EXCEPT !.rels.recs =
                            Append(@, Rel(RelIdText(relId), ImageType,
                                          TargetOf(ImgName(relId, e.imagePath))))]
               /\ Goto("rewire")
               /\ UNCHANGED failed
            \/ /\ Fail("relationship update")    \* SaveFile failed
               /\ Goto("rewire")
               /\ UNCHANGED tmp
    /\ UNCHANGED << inputs, outside, memory, outputDocx, outWrites, copied >>

\* docx_report.cpp:119-124: point the page's picture at the new relationship.
RewireImage ==
    /\ pc = "rewire"
    /\ heap' = [heap EXCEPT ![page] = RewireBlips(@, RelIdText(relId))]
    /\ Goto("append")
    /\ UNCHANGED << inputs, outside, tmp, outputDocx, doc, body, templateBlock, page,
                    relId, done, outWrites, failed, copied >>

\* docx_report.cpp:126-137: append the page and a page break, ++relId.
AppendPage ==
    /\ pc = "append"
    /\ heap' = Append(heap, PageBreak)
    /\ body' = InsertPageAndBreak(body, page, Len(heap) + 1)
    /\ relId' = NextRelId(relId)
    /\ done' = done + 1
    /\ page' = 0
    /\ Goto(LoopPc(done + 1))
    /\ UNCHANGED << inputs, outside, tmp, outputDocx, doc, templateBlock, outWrites,
                    failed, copied >>

\* docx_report.cpp:140: doc.SaveFile; its result is not looked at.
SaveDocument ==
    /\ pc = "save"
    /\ \/ /\ tmp.exists
          /\ tmp' = [tmp EXCEPT !.doc = DocFile(TRUE, TRUE, TRUE, Serialize(heap, body))]
          /\ UNCHANGED failed
       \/ /\ Fail("serialize")
          /\ UNCHANGED tmp
    /\ Goto("rezip")
    /\ UNCHANGED << inputs, outside, memory, outputDocx, outWrites, copied >>

\* What a failed repackaging may leave at the output path.
PartialArchive == Tree(BadDoc, RelsFile(FALSE, FALSE, <<>>), {})

\* docx_report.cpp:141 and 26-37: rezip; its result is not looked at.
Rezip ==
    /\ pc = "rezip"
    /\ \/ /\ tmp.exists
          /\ outputDocx' = tmp
          /\ outWrites' = outWrites + 1
          /\ UNCHANGED failed
       \/ /\ Fail("repackage")
          /\ \/ UNCHANGED << outputDocx, outWrites >>
             \/ /\ outputDocx' = PartialArchive
                /\ outWrites' = outWrites + 1
    /\ Goto("cleanup")
    /\ UNCHANGED << inputs, outside, memory, tmp, copied >>

\* docx_report.cpp:142-143: remove the working directory, return true.
Cleanup ==
    /\ pc = "cleanup"
    /\ \/ /\ tmp' = NoDir
          /\ Return(TRUE)
          /\ UNCHANGED failed
       \/ /\ Throw                        \* fs::remove_all throws
          /\ Fail("cleanup")
          /\ UNCHANGED tmp
    /\ UNCHANGED << inputs, outside, memory, outputDocx, outWrites, copied >>

Next ==
    \/ Extract
    \/ LoadDocument
    \/ GetBody
    \/ CaptureTemplate
    \/ ClonePage
    \/ CopyImage
    \/ UpdateRels
    \/ RewireImage
    \/ AppendPage
    \/ SaveDocument
    \/ Rezip
    \/ Cleanup

Spec == Init /\ [][Next]_vars

-----------------------------------------------------------------------------
(* Calls one after another.  Every call uses the same working directory     *)
(* path (docx_report.cpp:62); each call is given an output path of its own. *)

\* The templates and entry lists of the calls of a sequence.
SeqTemplates ==
    { Tree(DocFile(TRUE, TRUE, TRUE, k), r, TemplateMedia) :
        k \in {<<>>, <<BlockFlat>>, <<BlockTwoBlips, SectPr>>},
        r \in {RelsFile(TRUE, FALSE, <<>>), RelsFile(TRUE, TRUE, BusyRels)} }
    \cup { Tree(BadDoc, RelsFile(TRUE, TRUE, BaseRels), TemplateMedia) }

SeqEntryLists ==
    LET A == Entry("A", "d1", Path("x", "a", ".png"))
        B == Entry("B", "d2", Path("y", "a", ".png"))
        G == Entry("C", HEADER, Path("x", "gone", ".png"))
    IN  { <<>>, <<A>>, <<G>>, <<B, A>>, <<A, G>> }

InitSeq ==
    /\ Init
    /\ templateDocx \in SeqTemplates
    /\ entries \in SeqEntryLists

\* The caller, or the next run of the program, calls generateDocx again:
\* docx_report.cpp:58-62, with whatever the call before left at the path.
NewCall ==
    /\ pc \in {"returned", "threw", "crashed"}
    /\ other = NoCall
    /\ templateDocx' \in SeqTemplates
    /\ entries' \in SeqEntryLists
    /\ inherited' = tmp
    /\ outputDocx' = NoDir
    /\ pc' = "start"
    /\ result' = FALSE
    /\ doc' = BadDoc
    /\ heap' = <<>>
    /\ body' = <<>>
    /\ templateBlock' = 0
    /\ page' = 0
    /\ relId' = 0
    /\ done' = 0
    /\ outWrites' = 0
    /\ failed' = {}
    /\ copied' = <<>>
    /\ UNCHANGED << tmp, other >>

NextSeq ==
    \/ Next
    \/ NewCall

SpecSeq == InitSeq /\ [][NextSeq]_vars

-----------------------------------------------------------------------------
(* Two calls that overlap in time, e.g. on two threads.  One call runs, the *)
(* other is suspended with its variables kept in `other`; a context switch  *)
(* exchanges them.  Each call has its own output path.                      *)

\* Mutant: each call has a working directory of its own.
PrivateDir(mine, theirs) == theirs

\* fs::temp_directory_path() / "docx_tmp" (docx_report.cpp:62): the path is
\* the same in every call, so the call that is resumed finds the directory
\* as the call that ran last left it (mine), not as it last saw it (theirs).
SharedDir(mine, theirs) == mine

ConcTemplates ==
    { Tree(DocFile(TRUE, TRUE, TRUE, <<BlockFlat, SectPr>>),
           RelsFile(TRUE, TRUE, BaseRels), TemplateMedia),
      Tree(DocFile(TRUE, TRUE, TRUE, <<BlockNoBlip>>),
           RelsFile(TRUE, TRUE, BusyRels), TemplateMedia) }

ConcEntryLists ==
    { << Entry("A", "d1", Path("x", "a", ".png")) >>,
      << Entry("B", "d2", Path("x", "b", ".jpg")) >> }

\* The variables of one call.
Context ==
    [ templateDocx |-> templateDocx, entries |-> entries,
      outputDocx |-> outputDocx, pc |-> pc, result |-> result, doc |-> doc,
      heap |-> heap, body |-> body, templateBlock |-> templateBlock,
      page |-> page, relId |-> relId, done |-> done, outWrites |-> outWrites,
      failed |-> failed, copied |-> copied, inherited |-> inherited,
      tmp |-> tmp ]

InitConc ==
    /\ templateDocx \in ConcTemplates
    /\ entries \in ConcEntryLists
    /\ tmp = NoDir
    /\ outputDocx = NoDir
    /\ pc = "start"
    /\ result = FALSE
    /\ doc = BadDoc
    /\ heap = <<>>
    /\ body = <<>>
    /\ templateBlock = 0
    /\ page = 0
    /\ relId = 0
    /\ done = 0
    /\ outWrites = 0
    /\ failed = {}
    /\ copied = <<>>
    /\ inherited = tmp
    /\ \E t \in ConcTemplates, l \in ConcEntryLists :
          other = [Context EXCEPT !.templateDocx = t, !.entries = l]

\* The running call is suspended and the other one resumed.
Switch ==
    /\ other.pc \notin {"none", "returned", "threw", "crashed"}
    /\ other' = Context
    /\ templateDocx' = other.templateDocx
    /\ entries' = other.entries
    /\ outputDocx' = other.outputDocx
    /\ pc' = other.pc
    /\ result' = other.result
    /\ doc' = other.doc
    /\ heap' = other.heap
    /\ body' = other.body
    /\ templateBlock' = other.templateBlock
    /\ page' = other.page
    /\ relId' = other.relId
    /\ done' = other.done
    /\ outWrites' = other.outWrites
    /\ failed' = other.failed
    /\ copied' = other.copied
    /\ inherited' = other.inherited
    /\ tmp' = SharedDir(tmp, other.tmp)

NextConc ==
    \/ Next
    \/ Switch

SpecConc == InitConc /\ [][NextConc]_vars

TypeOK ==
    /\ pc \in {"start", "load", "body", "capture", "clone", "copy", "rels",
               "rewire", "append", "save", "rezip", "cleanup",
               "returned", "threw", "crashed"}
    /\ result \in BOOLEAN
    /\ done \in 0..Len(entries)

-----------------------------------------------------------------------------
(* Vocabulary of the properties.                                            *)

Terminal == pc \in {"returned", "threw", "crashed"}

ReturnedTrue == pc = "returned" /\ result = TRUE

\* The template block has been captured.
Captured == templateBlock # 0

\* The block entry k's pass through the loop body builds from template tpl.
BlockFor(tpl, k) ==
    RewireBlips(
        replaceTokens(replaceTokens(tpl, HEADER, entries[k].header),
                      DESCRIPTION, entries[k].description),
        "rId" \o ToString(9 + k))

\* Block, page break, block, page break, ... for the first n entries.
BodyFor(tpl, n) ==
    [j \in 1..(2 * n) |->
        IF j % 2 = 1 THEN BlockFor(tpl, (j + 1) \div 2) ELSE PageBreak]

\* C1: when generateDocx succeeds, the body is exactly, for each entry in
\* input order, that entry's block immediately followed by one page-break
\* block, with nothing before, between or after: 2 * |entries| children.
\* Checked of the document in memory whenever true is returned, and of the
\* document in the output archive whenever it was serialized and repackaged.
C1_BodyIsBlocksAndBreaks ==
    ReturnedTrue =>
        /\ Len(body) = 2 * Len(entries)
        /\ Serialize(heap, body) = BodyFor(heap[templateBlock], Len(entries))
        /\ (failed \cap {"serialize", "repackage"} = {}) =>
              outputDocx.doc.kids = BodyFor(heap[templateBlock], Len(entries))

C1_Witness ==
    /\ ReturnedTrue
    /\ failed = {}
    /\ Len(entries) = 2
    /\ entries[1] # entries[2]
    /\ Len(outputDocx.doc.kids) = 4
    /\ outputDocx.doc.kids[1] # outputDocx.doc.kids[3]
    /\ outputDocx.doc.kids[2] = PageBreak

UniqueIds(recs) ==
    \A i, j \in 1..Len(recs) : i # j => recs[i].Id # recs[j].Id

\* C2: every relationship identifier generateDocx generates (rId10, rId11,
\* ...) is unique in the whole relationship table, the template's own
\* relationships included.  Fails for a template that already uses rId10:
\* the counter starts at 10 whatever the template holds.
C2_GeneratedIdsUnique ==
    /\ (tmp.exists /\ pc # "start") => UniqueIds(tmp.rels.recs)
    /\ outputDocx.exists => UniqueIds(outputDocx.rels.recs)

\* Position by position: page p has the shape of template t, and the text
\* leaves of t that hold a token hold the entry's values in p.
RECURSIVE TokensReplaced(_, _, _)
TokensReplaced(t, p, en) ==
    /\ p.name = t.name
    /\ Len(p.kids) = Len(t.kids)
    /\ \A j \in 1..Len(t.kids) :
          /\ (t.kids[j].name = "w:t" /\ t.kids[j].text = HEADER) =>
                p.kids[j].text \in {en.header, en.description}
          /\ (t.kids[j].name = "w:t" /\ t.kids[j].text = DESCRIPTION) =>
                p.kids[j].text = en.description
          /\ TokensReplaced(t.kids[j], p.kids[j], en)

\* C3: in every entry's clone each text leaf that held {{HEADER}} or
\* {{DESCRIPTION}} holds that entry's header or description, the captured
\* template block is never mutated (it stays equal to the template's first
\* body child, tokens included), and the clones of the entries already done
\* keep their own entry's values while later clones are substituted.
C3_ClonesSubstitutedTemplateIntact ==
    Captured =>
        /\ heap[templateBlock] = templateDocx.doc.kids[1]
        /\ \A k \in 1..done :
              TokensReplaced(templateDocx.doc.kids[1], heap[body[2 * k - 1]],
                             entries[k])
        /\ pc \in {"copy", "rels", "rewire", "append"} =>
              TokensReplaced(templateDocx.doc.kids[1], heap[page], e)

C3_Witness ==
    /\ Captured
    /\ done = 2
    /\ templateDocx.doc.kids[1] = BlockTwoBlips
    /\ entries[1].header = "A"
    /\ entries[2].header = "B"
    /\ heap[body[1]].kids[1].kids[2].text = "A"
    /\ heap[body[3]].kids[1].kids[2].text = "B"
    /\ heap[templateBlock].kids[1].kids[2].text = HEADER

\* C4: with a template whose body has no children, generateDocx returns false
\* and writes no output file.  Fails: the first child is cloned through a
\* null pointer (docx_report.cpp:84).
C4_EmptyBodyReturnsFalse ==
    ( /\ templateDocx.doc = DocFile(TRUE, TRUE, TRUE, <<>>)
      /\ "extraction" \notin failed
      /\ pc \notin {"start", "load", "body", "capture"} )
    => (pc = "returned" /\ result = FALSE /\ ~outputDocx.exists)

\* C5: generateDocx returns true only on full success: when serializing the
\* document or repackaging the working directory failed, it returns false.
\* Fails: neither result is looked at (docx_report.cpp:140-143).
C5_TrueOnlyOnFullSuccess ==
    (pc = "returned" /\ failed \cap {"serialize", "repackage"} # {})
    => result = FALSE

\* C6: once extraction, document parse, body lookup, template capture, image
\* copy or relationship update has failed the call has stopped and nothing
\* was written to the output path; the output archive is written at most
\* once, and only after every entry was processed and the document was
\* serialized.
C6_FailureStopsBeforeOutput ==
    /\ (failed \cap {"extraction", "document parse", "body lookup",
                     "template capture", "image copy",
                     "relationship update"} # {})
          => (Terminal /\ ~ReturnedTrue /\ outWrites = 0)
    /\ outWrites <= 1
    /\ outWrites = 1 => (done = Len(entries) /\ "serialize" \notin failed)

\* The descendants of a node in document order, from its j-th child on.
RECURSIVE DescendantsFrom(_, _)
DescendantsFrom(node, j) ==
    IF j > Len(node.kids) THEN <<>>
    ELSE <<node.kids[j]>> \o DescendantsFrom(node.kids[j], 1)
                          \o DescendantsFrom(node, j + 1)

IsBlip(n) == n.name = "a:blip"

\* The image-reference nodes of a block, in document order.
BlipsOf(block) == SelectSeq(DescendantsFrom(block, 1), IsBlip)

AttrValues(n, a) == { p[2] : p \in {q \in n.attrs : q[1] = a} }

\* C7: once entry k is processed, the image-reference node of its block (the
\* first a:blip in document order) has r:embed = rId<10+k-1>, the identifier
\* registered for that entry.  Fails when the a:blip is not a direct child of
\* the block: only direct children are examined (docx_report.cpp:120).
C7_ImageReferenceRewired ==
    \A k \in 1..done :
        LET blips == BlipsOf(heap[body[2 * k - 1]])
        IN  blips # <<>> =>
                AttrValues(blips[1], "r:embed") = {"rId" \o ToString(9 + k)}

C9_RelsAppendOnly ==
    ("extraction" \notin failed /\ pc \in {"clone", "save", "rezip", "cleanup"})
    => tmp.rels.recs =
          templateDocx.rels.recs \o
          [k \in 1..done |->
              Rel("rId" \o ToString(9 + k), ImageType,
                  "media/image" \o ToString(9 + k) \o entries[k].imagePath.ext)]

\* C10: when generateDocx returns true the working directory is gone; it
\* outlives a call only when the call returned false after a successful
\* extraction.  Fails: it also outlives a call that ends in an exception.
C10_WorkDirOutlivesOnlyFalseReturn ==
    /\ ReturnedTrue => ~tmp.exists
    /\ (Terminal /\ tmp.exists) =>
          (pc = "returned" /\ result = FALSE /\ "extraction" \notin failed)

\* C11: when the relationship file cannot be loaded, has no Relationships
\* root, or cannot be saved while an entry's image is registered,
\* generateDocx returns false.  Fails: a failed SaveFile is not noticed and
\* the loop goes on; a missing root is dereferenced (docx_report.cpp:108-117).
C11_RelsFailureReturnsFalse ==
    "relationship update" \in failed => (pc = "returned" /\ result = FALSE)

\* C12: when an entry's image cannot be copied (source missing or
\* unreadable, media directory not writable) generateDocx returns false, no
\* exception leaves the call, no further entry is processed and no output
\* file is written.  Fails: fs::copy_file and fs::create_directories throw
\* and nothing catches (docx_report.cpp:100-103).
C12_ImageFailureReturnsFalse ==
    "image copy" \in failed =>
        (pc = "returned" /\ result = FALSE /\ ~outputDocx.exists)

\* C13: with no entries and a template whose body has at least one child, a
\* call in which no component fails returns true, and the output archive
\* holds a body with zero blocks, the template's media files and no other,
\* and the template's relationship file unchanged.
C13_NoEntriesEmptyBody ==
    ( /\ entries = <<>>
      /\ templateDocx.doc.hasBody
      /\ Len(templateDocx.doc.kids) >= 1
      /\ failed = {} )
    => /\ pc \notin {"clone", "copy", "rels", "rewire", "append"}
       /\ Terminal =>
            /\ ReturnedTrue
            /\ outputDocx.exists
            /\ outputDocx.doc = DocFile(TRUE, TRUE, TRUE, <<>>)
            /\ outputDocx.media = templateDocx.media
            /\ outputDocx.rels = templateDocx.rels

C13_Witness ==
    /\ entries = <<>>
    /\ Len(templateDocx.doc.kids) = 2
    /\ templateDocx.rels.recs = BusyRels
    /\ failed = {}
    /\ ReturnedTrue
    /\ outputDocx.doc.kids = <<>>

\* C14: when a block holds several image-reference nodes, only the first in
\* document order has r:embed rewritten to the entry's identifier and every
\* other keeps the value it had in the template; when it holds none, nothing
\* is rewritten.  Fails: every a:blip that is a direct child of the block is
\* rewritten, and no other (docx_report.cpp:120-124), also in a call where
\* no component fails.
C14_OnlyFirstBlipRewritten ==
    failed = {} => \A k \in 1..done :
        LET was == BlipsOf(templateDocx.doc.kids[1])
            now == BlipsOf(heap[body[2 * k - 1]])
        IN  /\ Len(now) = Len(was)
            /\ Len(was) >= 2 =>
                  \A j \in 1..Len(now) :
                      IF j = 1
                      THEN AttrValues(now[j], "r:embed")
                               = {"rId" \o ToString(9 + k)}
                      ELSE now[j] = was[j]

\* C17: at every entry boundary, with k entries done, the counter is 10+k,
\* the body holds k blocks and k page breaks, word/media has gained exactly
\* k files and the relationship file exactly k records; within an entry the
\* image is copied before its record is saved and the record is saved before
\* the block is appended.  Fails: an entry whose record could not be saved
\* is completed all the same.
C17_LoopInvariant ==
    LET gainedMedia == Cardinality(tmp.media) - Cardinality(templateDocx.media)
        gainedRecs  == Len(tmp.rels.recs) - Len(templateDocx.rels.recs)
    IN  /\ pc \in {"clone", "save"} =>
            /\ relId = 10 + done
            /\ Len(body) = 2 * done
            /\ \A j \in 1..Len(body) :
                  (heap[body[j]] = PageBreak) <=> (j % 2 = 0)
            /\ gainedMedia = done
            /\ gainedRecs = done
        /\ pc = "rels" => (gainedMedia = done + 1 /\ gainedRecs = done)
        /\ pc \in {"rewire", "append"} =>
            (gainedMedia = done + 1 /\ gainedRecs = done + 1 /\ Len(body) = 2 * done)

\* Position by position: the text leaves of template t that hold {{HEADER}}
\* hold exactly the header value in page p.
RECURSIVE HeaderVerbatim(_, _, _)
HeaderVerbatim(t, p, h) ==
    \A j \in 1..Len(t.kids) :
        /\ (t.kids[j].name = "w:t" /\ t.kids[j].text = HEADER) =>
              p.kids[j].text = h
        /\ HeaderVerbatim(t.kids[j], p.kids[j], h)

\* C18: the text leaves that held exactly {{HEADER}} in the template carry
\* the entry's header value verbatim in the entry's block, also when that
\* value is the string {{DESCRIPTION}}.  Fails: the second replaceTokens
\* pass substitutes the description into it (docx_report.cpp:95-96).
C18_HeaderVerbatim ==
    failed = {} => \A k \in 1..done :
        HeaderVerbatim(templateDocx.doc.kids[1], heap[body[2 * k - 1]],
                       entries[k].header)

\* The files and records a call adds for its own entries.
OwnMedia ==
    { << ImgName(9 + k, entries[k].imagePath), Content(entries[k].imagePath) >> :
        k \in 1..Len(entries) }
OwnRecs ==
    { Rel(RelIdText(9 + k), ImageType,
          TargetOf(ImgName(9 + k, entries[k].imagePath))) : k \in 1..Len(entries) }

\* A directory tree or archive that holds nothing but what the running
\* call's template and entries account for.
FromOwnInputs(t) ==
    /\ t.media \subseteq templateDocx.media \cup OwnMedia
    /\ \A j \in 1..Len(t.rels.recs) :
          \/ j <= Len(templateDocx.rels.recs)
             /\ t.rels.recs[j] = templateDocx.rels.recs[j]
          \/ j > Len(templateDocx.rels.recs) /\ t.rels.recs[j] \in OwnRecs
    /\ \/ t.doc = templateDocx.doc
       \/ /\ templateDocx.doc.kids # <<>>
          /\ t.doc = DocFile(TRUE, TRUE, TRUE,
                             BodyFor(templateDocx.doc.kids[1], Len(entries)))

\* C16: in a sequence of calls, whatever an earlier call (failed ones
\* included) left in the working directory, once the extraction of a call
\* has succeeded the directory holds only what that call's own template and
\* entries account for, and so does the output package the call writes.
C16_OutputFromOwnInputs ==
    /\ (pc \notin {"start"} /\ "extraction" \notin failed /\ tmp.exists) =>
          FromOwnInputs(tmp)
    /\ (outputDocx.exists /\ "repackage" \notin failed) =>
          FromOwnInputs(outputDocx)

C16_Witness ==
    /\ inherited.exists
    /\ inherited # StaleDir
    /\ \E f \in inherited.media : f \notin templateDocx.media \cup OwnMedia
    /\ Len(inherited.rels.recs) > 0
    /\ inherited.rels.recs # templateDocx.rels.recs
    /\ inherited.doc # templateDocx.doc
    /\ Len(entries) >= 1
    /\ ReturnedTrue
    /\ failed = {}
    /\ outputDocx.exists
    /\ outputDocx.media = templateDocx.media \cup OwnMedia

\* The suspended call is in the middle of its work.
OtherWorking ==
    other.pc \in {"load", "body", "capture", "clone", "copy", "rels", "rewire",
                  "append", "save", "rezip", "cleanup"}

\* C15: two overlapping calls work in the same directory.  A context switch
\* leaves the directory as it is, so the resumed call finds what the other
\* call made of it; and while one call is suspended in mid-work, the running
\* call's extraction replaces the whole directory by its own template's
\* files and its final remove_all deletes it, whatever the suspended call
\* had extracted or written there.
C15_WorkDirNotPrivate ==
    [][ /\ other' # other => tmp' = tmp
        /\ (other' = other /\ OtherWorking /\ pc = "start" /\ pc' = "load") =>
              tmp' = templateDocx
        /\ (other' = other /\ OtherWorking /\ pc = "cleanup" /\ pc' = "returned") =>
              ~tmp'.exists ]_vars

\* One call was resumed after the other call's extraction had deleted the
\* image it had copied: it returns true without any component having
\* failed, and its output package lacks that image and holds the other
\* call's template.
C15_Witness ==
    /\ other.pc \notin {"none", "start"}
    /\ ReturnedTrue
    /\ failed = {}
    /\ Len(copied) = 1
    /\ outputDocx.exists
    /\ copied[1] \notin { f[1] : f \in outputDocx.media }
    /\ outputDocx.rels.recs # templateDocx.rels.recs \o
          << Rel(RelIdText(10), ImageType, TargetOf(copied[1])) >>
====
